---- MODULE Spec2Model ----
(***************************************************************************)
(* Model of the D-Bus name validators (src/src/names.rs), the wire codec  *)
(* (src/src/dbus_writer.rs, src/src/reader.rs), the message header         *)
(* (src/src/message.rs) and the type codes (src/src/type_system.rs).       *)
(*                                                                         *)
(* A string is a sequence of Unicode scalar values (code points).  Its     *)
(* length in the sense of str::len is the number of bytes of its UTF-8     *)
(* encoding, and str::char_indices yields byte offsets, so both are        *)
(* computed from the UTF-8 width of every character.                       *)
(***************************************************************************)
EXTENDS Integers, Sequences, FiniteSets, TLC

VARIABLES
    input, result,                                  \* name validators
    order, sink, wlog, phase, source, rpos, rlog,   \* writer and reader
    header, outcome,                                \* message header
    value, type_code                                \* type codes

vars == <<input, result, order, sink, wlog, phase, source, rpos, rlog,
          header, outcome, value, type_code>>

namesVars == <<input, result>>

wireVars == <<order, sink, wlog, phase, source, rpos, rlog>>

msgVars == <<header, outcome>>

typeVars == <<value, type_code>>

\* no string is being validated
NamesIdle == input = <<>> /\ result = "None"

\* no writer and no reader exists
WireIdle ==
    /\ order = "None"
    /\ sink = <<>>
    /\ wlog = <<>>
    /\ phase = "None"
    /\ source = <<>>
    /\ rpos = 0
    /\ rlog = <<>>

\* no write of a message or of a header has been called
NoOutcome == [op |-> "None", ret |-> "None"]

\* no message exists
MsgIdle == header = "None" /\ outcome = NoOutcome

\* no value is asked for its type code
TypesIdle == value = "None" /\ type_code = <<>>

----------------------------------------------------------------------------
(* Bounds and input space *)

\* longest input that is enumerated exhaustively over the alphabet
MaxLen == 4

\* longest input that is lengthened with a filler of PadLens characters
MaxPadCore == 3

\* names.rs:155
MAX_NAME_LENGHT == 255

\* '.'
Period == 46

\* 'X', the filler the tests use to build an over-long string (names.rs:10)
PadChar == 88

\* '-' '.' '9' 'Z' '_' 'a' '|' and the two-byte character U+00E9
Alphabet == {45, 46, 57, 90, 95, 97, 124, 233}

\* lengths of the filler that bring a short prefix to the size limit
PadLens == {MAX_NAME_LENGHT - 3, MAX_NAME_LENGHT - 2}

Pad(n) == [i \in 1..n |-> PadChar]

Cores(m) == UNION {[1..n -> Alphabet] : n \in 0..m}

Inputs == Cores(MaxLen)

----------------------------------------------------------------------------
(* Strings *)

\* number of bytes of the UTF-8 encoding of a character
Utf8Len(c) == IF c < 128 THEN 1 ELSE IF c < 2048 THEN 2 ELSE IF c < 65536 THEN 3 ELSE 4

\* number of bytes of the characters lo..hi of s (halving keeps the
\* evaluation shallow on long strings)
RECURSIVE ByteLenRange(_, _, _)
ByteLenRange(s, lo, hi) ==
    IF lo > hi THEN 0
    ELSE IF lo = hi THEN Utf8Len(s[lo])
    ELSE LET mid == (lo + hi) \div 2 IN
         ByteLenRange(s, lo, mid) + ByteLenRange(s, mid + 1, hi)

\* the length of s in characters instead of bytes
StrLen_Chars(s) == Len(s)

\* s.len(): the length of s in bytes
StrLen(s) == ByteLenRange(s, 1, Len(s))

\* a comparison with "." instead of a prefix test
StartsWithPeriod_WholeString(s) == s = <<Period>>

\* s.starts_with('.')
StartsWithPeriod(s) == Len(s) > 0 /\ s[1] = Period

\* c.is_digit(10)
is_digit(c) == c \in 48..57

----------------------------------------------------------------------------
(* Results: Ok(Name(s)) or Err(variant), tagged with the name kind *)

NoChar == 0 - 1

Ok(ty, s) == [ty |-> ty, tag |-> "Ok", name |-> s, ch |-> NoChar]

Err(ty, tag) == [ty |-> ty, tag |-> tag, name |-> <<>>, ch |-> NoChar]

ErrChar(ty, c) == [ty |-> ty, tag |-> "InvalidCharacter", name |-> <<>>, ch |-> c]

\* no from_str has returned yet
Pending == [ty |-> "None", tag |-> "Pending", name |-> <<>>, ch |-> NoChar]

\* the locals of a validation loop before its first iteration: ret is the
\* value of an early return, i the byte offset of the next character, lpp is
\* last_period_position
LoopStart == [ret |-> Pending, i |-> 0, lpp |-> 0]

----------------------------------------------------------------------------
(* InterfaceName *)

is_valid_interface_name_char(c) ==
    \/ c \in 65..90
    \/ c \in 97..122
    \/ c \in 48..57
    \/ c = 45
    \/ c = 46

\* one iteration of the for loop over s.char_indices()
InterfaceLoopBody(st, c) ==
    IF ~is_valid_interface_name_char(c)
    THEN [st EXCEPT !.ret = ErrChar("InterfaceName", c)]
    ELSE IF c = Period
         THEN IF st.lpp + 1 = st.i
              THEN [st EXCEPT !.ret = Err("InterfaceName", "ElementsMustContainChars")]
              ELSE [st EXCEPT !.lpp = st.i, !.i = st.i + Utf8Len(c)]
         ELSE IF st.lpp + 1 = st.i /\ is_digit(c)
              THEN [st EXCEPT !.ret = Err("InterfaceName", "ElementMustNotBeginWithDigit")]
              ELSE [st EXCEPT !.i = st.i + Utf8Len(c)]

\* the iterations for the characters lo..hi of s, in order, stopping at the
\* first early return
RECURSIVE InterfaceLoop(_, _, _, _)
InterfaceLoop(st, s, lo, hi) ==
    IF st.ret # Pending \/ lo > hi THEN st
    ELSE IF lo = hi THEN InterfaceLoopBody(st, s[lo])
    ELSE LET mid == (lo + hi) \div 2 IN
         InterfaceLoop(InterfaceLoop(st, s, lo, mid), s, mid + 1, hi)

\* the characters are all checked before the element structure is looked at
InterfaceName_from_str_CharsFirst(s) ==
    LET bad == {k \in 1..Len(s) : ~is_valid_interface_name_char(s[k])} IN
    IF StrLen(s) > MAX_NAME_LENGHT
    THEN Err("InterfaceName", "ExceedsMaxSize")
    ELSE IF StartsWithPeriod(s)
         THEN Err("InterfaceName", "MustNotBeginWithPeriod")
         ELSE IF bad # {}
              THEN ErrChar("InterfaceName", s[CHOOSE k \in bad : \A j \in bad : k <= j])
              ELSE LET st == InterfaceLoop(LoopStart, s, 1, Len(s)) IN
                   IF st.ret # Pending THEN st.ret
                   ELSE IF st.lpp = 0
                        THEN Err("InterfaceName", "MustContainPeriod")
                        ELSE Ok("InterfaceName", s)

InterfaceName_from_str(s) ==
    IF StrLen(s) > MAX_NAME_LENGHT
    THEN Err("InterfaceName", "ExceedsMaxSize")
    ELSE IF StartsWithPeriod(s)
         THEN Err("InterfaceName", "MustNotBeginWithPeriod")
         ELSE LET st == InterfaceLoop(LoopStart, s, 1, Len(s)) IN
              IF st.ret # Pending THEN st.ret
              ELSE IF st.lpp = 0
                   THEN Err("InterfaceName", "MustContainPeriod")
                   ELSE Ok("InterfaceName", s)

----------------------------------------------------------------------------
(* BusName *)

is_valid_bus_name_char(c) ==
    \/ c \in 65..90
    \/ c \in 97..122
    \/ c \in 48..57
    \/ c = 45
    \/ c = 46

BusLoopBody(st, c) ==
    IF ~is_valid_bus_name_char(c)
    THEN [st EXCEPT !.ret = ErrChar("BusName", c)]
    ELSE IF c = Period
         THEN IF st.lpp + 1 = st.i
              THEN [st EXCEPT !.ret = Err("BusName", "ElementsMustContainChars")]
              ELSE [st EXCEPT !.lpp = st.i, !.i = st.i + Utf8Len(c)]
         ELSE [st EXCEPT !.i = st.i + Utf8Len(c)]

RECURSIVE BusLoop(_, _, _, _)
BusLoop(st, s, lo, hi) ==
    IF st.ret # Pending \/ lo > hi THEN st
    ELSE IF lo = hi THEN BusLoopBody(st, s[lo])
    ELSE LET mid == (lo + hi) \div 2 IN
         BusLoop(BusLoop(st, s, lo, mid), s, mid + 1, hi)

BusName_from_str(s) ==
    IF StrLen(s) > MAX_NAME_LENGHT
    THEN Err("BusName", "ExceedsMaxSize")
    ELSE IF StartsWithPeriod(s)
         THEN Err("BusName", "MustNotBeginWithPeriod")
         ELSE LET st == BusLoop(LoopStart, s, 1, Len(s)) IN
              IF st.ret # Pending THEN st.ret
              ELSE IF st.lpp = 0
                   THEN Err("BusName", "MustContainPeriod")
                   ELSE Ok("BusName", s)

----------------------------------------------------------------------------
(* MemberName *)

is_valid_member_name_char(c) ==
    \/ c \in 65..90
    \/ c \in 97..122
    \/ c \in 48..57
    \/ c = 45

\* one iteration of the for loop over s.chars()
MemberLoopBody(st, c) ==
    IF c = Period
    THEN [st EXCEPT !.ret = Err("MemberName", "MustNotContainPeriod")]
    ELSE IF ~is_valid_member_name_char(c)
         THEN [st EXCEPT !.ret = ErrChar("MemberName", c)]
         ELSE st

RECURSIVE MemberLoop(_, _, _, _)
MemberLoop(st, s, lo, hi) ==
    IF st.ret # Pending \/ lo > hi THEN st
    ELSE IF lo = hi THEN MemberLoopBody(st, s[lo])
    ELSE LET mid == (lo + hi) \div 2 IN
         MemberLoop(MemberLoop(st, s, lo, mid), s, mid + 1, hi)

\* s.starts_with(|c: char| c.is_digit(10))
StartsWithDigit(s) == Len(s) > 0 /\ is_digit(s[1])

MemberName_from_str(s) ==
    IF StrLen(s) > MAX_NAME_LENGHT
    THEN Err("MemberName", "ExceedsMaxSize")
    ELSE IF StartsWithDigit(s)
         THEN Err("MemberName", "MustNotBeginWithDigit")
         ELSE LET st == MemberLoop(LoopStart, s, 1, Len(s)) IN
              IF st.ret # Pending THEN st.ret
              ELSE Ok("MemberName", s)

----------------------------------------------------------------------------
(* ErrorName *)

\* two arms of the match exchanged
ErrorName_from_str_Swapped(s) ==
    LET r == InterfaceName_from_str(s) IN
    CASE r.tag = "Ok" -> Ok("ErrorName", r.name)
      [] r.tag = "ExceedsMaxSize" -> Err("ErrorName", "ExceedsMaxSize")
      [] r.tag = "ElementsMustContainChars" -> Err("ErrorName", "ElementsMustContainChars")
      [] r.tag = "InvalidCharacter" -> ErrChar("ErrorName", r.ch)
      [] r.tag = "MustContainPeriod" -> Err("ErrorName", "MustNotBeginWithPeriod")
      [] r.tag = "MustNotBeginWithPeriod" -> Err("ErrorName", "MustContainPeriod")
      [] r.tag = "ElementMustNotBeginWithDigit" -> Err("ErrorName", "ElementMustNotBeginWithDigit")

ErrorName_from_str(s) ==
    LET r == InterfaceName_from_str(s) IN
    CASE r.tag = "Ok" -> Ok("ErrorName", r.name)
      [] r.tag = "ExceedsMaxSize" -> Err("ErrorName", "ExceedsMaxSize")
      [] r.tag = "ElementsMustContainChars" -> Err("ErrorName", "ElementsMustContainChars")
      [] r.tag = "InvalidCharacter" -> ErrChar("ErrorName", r.ch)
      [] r.tag = "MustContainPeriod" -> Err("ErrorName", "MustContainPeriod")
      [] r.tag = "MustNotBeginWithPeriod" -> Err("ErrorName", "MustNotBeginWithPeriod")
      [] r.tag = "ElementMustNotBeginWithDigit" -> Err("ErrorName", "ElementMustNotBeginWithDigit")

----------------------------------------------------------------------------
(* The state machine: a caller holds a string and parses it as one kind *)

Init ==
    /\ input \in Inputs
    /\ result = Pending
    /\ WireIdle
    /\ MsgIdle
    /\ TypesIdle

\* the caller lengthens a short string with a run of filler characters, as the
\* tests do to reach the size limit
Lengthen ==
    /\ result = Pending
    /\ Len(input) <= MaxPadCore
    /\ \E n \in PadLens : input' = input \o Pad(n)
    /\ UNCHANGED <<result, wireVars, msgVars, typeVars>>

ParseInterfaceName ==
    /\ result = Pending
    /\ result' = InterfaceName_from_str(input)
    /\ UNCHANGED <<input, wireVars, msgVars, typeVars>>

ParseBusName ==
    /\ result = Pending
    /\ result' = BusName_from_str(input)
    /\ UNCHANGED <<input, wireVars, msgVars, typeVars>>

ParseMemberName ==
    /\ result = Pending
    /\ result' = MemberName_from_str(input)
    /\ UNCHANGED <<input, wireVars, msgVars, typeVars>>

ParseErrorName ==
    /\ result = Pending
    /\ result' = ErrorName_from_str(input)
    /\ UNCHANGED <<input, wireVars, msgVars, typeVars>>

Next ==
    \/ Lengthen
    \/ ParseInterfaceName
    \/ ParseBusName
    \/ ParseMemberName
    \/ ParseErrorName

Spec == Init /\ [][Next]_vars

----------------------------------------------------------------------------
(* Vocabulary of the properties, stated on the input string itself *)

Done == result # Pending

Dotted == result.ty \in {"InterfaceName", "BusName", "ErrorName"}

\* the size of the input in bytes, counted character class by character class
InputBytes ==
    Len(input)
    + Cardinality({k \in 1..Len(input) : input[k] >= 128})
    + Cardinality({k \in 1..Len(input) : input[k] >= 2048})
    + Cardinality({k \in 1..Len(input) : input[k] >= 65536})

FitsMaxSize == InputBytes <= 255

LeadingPeriod == input # <<>> /\ Head(input) = 46

\* the documented element characters [A-Za-z0-9_-]
ElementChar(c) == c \in (65..90) \cup (97..122) \cup (48..57) \cup {95, 45}

\* the documented character set of the kind that was parsed
AllowedChar(c) == ElementChar(c) \/ (Dotted /\ c = 46)

BadPositions == {k \in 1..Len(input) : ~AllowedChar(input[k])}

HasPeriod == \E k \in 1..Len(input) : input[k] = 46

\* an element is empty: the input is empty, or a period stands first, last
\* or right after another period
HasEmptyElement ==
    \/ input = <<>>
    \/ \E k \in 1..Len(input) :
          /\ input[k] = 46
          /\ (k = 1 \/ k = Len(input) \/ input[k + 1] = 46)

\* some element begins with a digit
HasDigitLedElement ==
    \E k \in 1..Len(input) :
       /\ input[k] \in 48..57
       /\ (k = 1 \/ input[k - 1] = 46)

\* the rule on leading digits applies to interface and error names only
DigitRuleBroken ==
    result.ty \in {"InterfaceName", "ErrorName"} /\ HasDigitLedElement

\* two or more non-empty elements, none beginning with a digit, within the
\* size limit (characters are judged separately)
WellFormedDottedShape ==
    /\ FitsMaxSize
    /\ HasPeriod
    /\ ~HasEmptyElement
    /\ ~DigitRuleBroken

WellFormedMemberShape ==
    /\ FitsMaxSize
    /\ ~HasPeriod
    /\ ~(input # <<>> /\ Head(input) \in 48..57)

WellFormedShape == IF Dotted THEN WellFormedDottedShape ELSE WellFormedMemberShape

----------------------------------------------------------------------------
(* C1 *)

\* C1: for each of the four name kinds from_str returns ExceedsMaxSize if
\* and only if the input is longer than 255 bytes, whatever else is wrong
\* with it.
C1_ExceedsMaxSizeIffOver255Bytes ==
    Done => (result.tag = "ExceedsMaxSize" <=> InputBytes > 255)

\* an input of 255 characters but 256 bytes, beginning with a period and
\* holding an invalid character, is refused for its size
C1_Witness ==
    /\ Done
    /\ result.tag = "ExceedsMaxSize"
    /\ Len(input) = 255
    /\ InputBytes = 256
    /\ LeadingPeriod
    /\ BadPositions # {}

----------------------------------------------------------------------------
(* C2 *)

\* C2: InterfaceName::from_str returns Ok for every well-formed interface
\* name: at most 255 bytes, two or more period-separated non-empty elements
\* of allowed characters, none beginning with a digit - one-character
\* elements included.
C2_WellFormedInterfaceNameAccepted ==
    (Done /\ result.ty = "InterfaceName" /\ WellFormedDottedShape /\ BadPositions = {})
        => result = Ok("InterfaceName", input)

----------------------------------------------------------------------------
(* C3 *)

\* C3: the validators accept exactly [A-Za-z0-9_-] (plus '.' for the dotted
\* kinds): an otherwise well-formed name with an underscore is accepted, and
\* an input within the size limit whose only violation is a character
\* outside the set is rejected with InvalidCharacter(c), c the first such
\* character.
C3_ExactCharacterSet ==
    Done =>
      /\ (WellFormedShape /\ BadPositions = {} /\ (\E k \in 1..Len(input) : input[k] = 95))
            => result = Ok(result.ty, input)
      /\ (WellFormedShape /\ BadPositions # {})
            => result = ErrChar(result.ty,
                                input[CHOOSE k \in BadPositions :
                                         \A j \in BadPositions : k <= j])

----------------------------------------------------------------------------
(* C4 *)

\* C4: InterfaceName::from_str (and ErrorName through it) returns
\* ElementMustNotBeginWithDigit for every input of allowed characters in
\* which some element begins with a digit, the first element included, and
\* never for an input in which no element begins with a digit.
C4_DigitLedElementRejected ==
    (Done /\ result.ty \in {"InterfaceName", "ErrorName"}) =>
      /\ (FitsMaxSize /\ BadPositions = {} /\ HasPeriod /\ ~HasEmptyElement
            /\ HasDigitLedElement)
            => result.tag = "ElementMustNotBeginWithDigit"
      /\ result.tag = "ElementMustNotBeginWithDigit" => HasDigitLedElement

----------------------------------------------------------------------------
(* C5 *)

\* C5: for the dotted kinds from_str returns ElementsMustContainChars
\* exactly when the input of allowed characters has an empty element (two
\* consecutive periods, or a trailing period), and never when every element
\* holds at least one character.
C5_EmptyElementRejected ==
    (Done /\ Dotted) =>
      /\ (FitsMaxSize /\ BadPositions = {} /\ ~LeadingPeriod /\ ~DigitRuleBroken
            /\ HasEmptyElement /\ input # <<>>)
            => result.tag = "ElementsMustContainChars"
      /\ result.tag = "ElementsMustContainChars" => HasEmptyElement

----------------------------------------------------------------------------
(* C6 *)

\* C6 as stated: the checks run in the stated order, so an input within the
\* size limit that does not start with '.' and holds a character outside the
\* allowed set yields InvalidCharacter even when it also has an empty
\* element, a digit-led element or no period.
C6_InvalidCharacterBeforeStructure ==
    (Done /\ Dotted /\ FitsMaxSize /\ ~LeadingPeriod /\ BadPositions # {})
        => result.tag = "InvalidCharacter"

\* from_str of the kind ty
KindFromStr(ty, s) ==
    CASE ty = "InterfaceName" -> InterfaceName_from_str(s)
      [] ty = "BusName" -> BusName_from_str(s)
      [] ty = "MemberName" -> MemberName_from_str(s)
      [] ty = "ErrorName" -> ErrorName_from_str(s)

\* positions of the characters the dotted validators refuse
RefusedPositions ==
    {k \in 1..Len(input) :
        input[k] \notin (65..90) \cup (97..122) \cup (48..57) \cup {45, 46}}

FirstRefused == CHOOSE k \in RefusedPositions : \A j \in RefusedPositions : k <= j

\* C6, amended: after the size and leading-period checks one left-to-right
\* scan reports the first violation it meets.  An input within the size limit
\* that does not start with '.' and holds a refused character c (first such)
\* yields InvalidCharacter(c) exactly when the characters before c raise no
\* element error by themselves (from_str of that prefix is Ok or
\* MustContainPeriod); otherwise it yields the element error of the prefix.
\* MustContainPeriod is never preferred to InvalidCharacter.
C6_FirstViolationInScanOrder ==
    (Done /\ Dotted /\ FitsMaxSize /\ ~LeadingPeriod /\ RefusedPositions # {}) =>
        LET rp == KindFromStr(result.ty, SubSeq(input, 1, FirstRefused - 1)) IN
        IF rp.tag \in {"Ok", "MustContainPeriod"}
        THEN result = ErrChar(result.ty, input[FirstRefused])
        ELSE result = rp /\ rp.tag \in {"ElementsMustContainChars",
                                         "ElementMustNotBeginWithDigit"}

\* an invalid character is reported although two consecutive periods follow it
C6_Witness ==
    /\ Done
    /\ Dotted
    /\ result.tag = "InvalidCharacter"
    /\ \E k \in 1..Len(input) - 1 :
          /\ input[k] = 46
          /\ input[k + 1] = 46
          /\ FirstRefused < k

----------------------------------------------------------------------------
(* C7 *)

\* C7: for the dotted kinds an input of at most 255 bytes that starts with
\* '.' is rejected with MustNotBeginWithPeriod, whatever else follows.
C7_LeadingPeriodRejected ==
    (Done /\ Dotted /\ FitsMaxSize /\ LeadingPeriod)
        => result = Err(result.ty, "MustNotBeginWithPeriod")

\* a leading period followed by an invalid character and an empty element
C7_Witness ==
    /\ Done
    /\ Dotted
    /\ LeadingPeriod
    /\ BadPositions # {}
    /\ Len(input) > 1
    /\ input[Len(input)] = 46
    /\ result.tag = "MustNotBeginWithPeriod"

----------------------------------------------------------------------------
(* C8 *)

\* C8: for the dotted kinds from_str returns MustContainPeriod for every
\* input of at most 255 bytes made only of allowed non-period characters
\* (the empty string included), and never returns Ok for an input without a
\* period.
C8_MissingPeriodRejected ==
    (Done /\ Dotted) =>
      /\ (FitsMaxSize /\ BadPositions = {} /\ ~HasPeriod)
            => result = Err(result.ty, "MustContainPeriod")
      /\ ~HasPeriod => result.tag # "Ok"

----------------------------------------------------------------------------
(* C9 *)

\* C9: MemberName::from_str on inputs of at most 255 bytes: a leading digit
\* yields MustNotBeginWithDigit; an input of otherwise allowed characters
\* that contains a period yields MustNotContainPeriod; Ok is returned only
\* for inputs with no period, no character outside the allowed set and no
\* leading digit, and the name holds the input unchanged.
C9_MemberNameRules ==
    (Done /\ result.ty = "MemberName" /\ FitsMaxSize) =>
      LET LeadingDigit == input # <<>> /\ Head(input) \in 48..57 IN
      /\ LeadingDigit => result.tag = "MustNotBeginWithDigit"
      /\ (~LeadingDigit /\ HasPeriod
            /\ \A k \in BadPositions : input[k] = 46)
            => result.tag = "MustNotContainPeriod"
      /\ result.tag = "Ok"
            => (~HasPeriod /\ BadPositions = {} /\ ~LeadingDigit /\ result.name = input)

----------------------------------------------------------------------------
(* C10 *)

\* C10: ErrorName::from_str agrees with InterfaceName::from_str on every
\* input: Ok exactly when InterfaceName is Ok, with the same string, and
\* otherwise the error variant of the same name with the same offending
\* character.
C10_ErrorNameAgreesWithInterfaceName ==
    (Done /\ result.ty = "ErrorName") =>
        LET r == InterfaceName_from_str(input) IN
        /\ result.tag = r.tag
        /\ result.name = r.name
        /\ result.ch = r.ch

\* an ErrorName parse that reports the offending character '|'
C10_Witness ==
    /\ Done
    /\ result.ty = "ErrorName"
    /\ result.tag = "InvalidCharacter"
    /\ result.ch = 124
    /\ InterfaceName_from_str(input).ty = "InterfaceName"

----------------------------------------------------------------------------
(* Wire codec: bounds and values *)

\* most primitive writes made on one writer
MaxWrites == 3

\* a writer takes no further value once its sink holds more bytes than this
MaxSinkLen == 16

\* most values written before a reader is put on the written bytes
MaxLoopWrites == 1

\* longest byte stream handed to a reader by a peer
MaxStream == 5

\* most values read by one reader
MaxReads == 1

\* byteorder::LittleEndian and byteorder::BigEndian, the T1 of the writer
ByteOrders == {"LittleEndian", "BigEndian"}

\* bytes a peer may send: NUL, 1, '\n' and 'a'
WireBytes == {0, 1, 10, 97}

Streams == UNION {[1..n -> WireBytes] : n \in 0..MaxStream}

\* An integer of w bytes is kept as its w base-256 digits, most significant
\* first, so that 32- and 64-bit values keep their full width.
RECURSIVE Num(_, _)
Num(n, w) == IF w = 0 THEN <<>> ELSE Num(n \div 256, w - 1) \o <<(n % 256)>>

U8Vals == {1, 255}

I16Vals == {<<255, 254>>}

U16Vals == {<<1, 2>>}

I32Vals == {<<255, 255, 255, 254>>}

U32Vals == {<<1, 2, 3, 4>>}

\* 2^32 + 2, and -2
I64Vals == {<<0, 0, 0, 1, 0, 0, 0, 2>>, <<255, 255, 255, 255, 255, 255, 255, 254>>}

U64Vals == {<<1, 2, 3, 4, 5, 6, 7, 8>>}

\* "", "a", "\n" and "\u{e9}a"
StrVals == {<<>>, <<97>>, <<10>>, <<233, 97>>}

\* "/"
PathVals == {<<47>>}

\* "y", and signatures of 255 and 256 times 'y'
SigLens == {1, 255, 256}

SigVals == {[i \in 1..n |-> 121] : n \in SigLens}

----------------------------------------------------------------------------
(* Wire codec: bytes *)

Reverse(s) == [k \in 1..Len(s) |-> s[Len(s) + 1 - k]]

\* ByteOrder::write_uN / write_iN: the bytes of an integer in byte order o
ToBytes(o, num) == IF o = "BigEndian" THEN num ELSE Reverse(num)

\* ByteOrder::read_uN / read_iN: the integer held by bytes in byte order o
FromBytes(o, bytes) == IF o = "BigEndian" THEN bytes ELSE Reverse(bytes)

\* the UTF-8 encoding of one character
Utf8Encode(c) ==
    IF c < 128 THEN <<c>>
    ELSE IF c < 2048 THEN <<192 + (c \div 64), 128 + (c % 64)>>
    ELSE IF c < 65536
         THEN <<224 + (c \div 4096), 128 + ((c \div 64) % 64), 128 + (c % 64)>>
         ELSE <<240 + (c \div 262144), 128 + ((c \div 4096) % 64),
                128 + ((c \div 64) % 64), 128 + (c % 64)>>

\* the bytes of the characters lo..hi of the string s
RECURSIVE Utf8Range(_, _, _)
Utf8Range(s, lo, hi) ==
    IF lo > hi THEN <<>>
    ELSE IF lo = hi THEN Utf8Encode(s[lo])
    ELSE LET mid == (lo + hi) \div 2 IN
         Utf8Range(s, lo, mid) \o Utf8Range(s, mid + 1, hi)

\* String::as_bytes
Utf8Bytes(s) == Utf8Range(s, 1, Len(s))

IsCont(b) == b \in 128..191

\* String::from_utf8: the characters of a byte vector, or an error
RECURSIVE FromUtf8(_)
FromUtf8(b) ==
    IF b = <<>> THEN [ok |-> TRUE, val |-> <<>>]
    ELSE LET b1 == b[1]
             n == IF b1 < 128 THEN 1
                  ELSE IF b1 \in 194..223 THEN 2
                  ELSE IF b1 \in 224..239 THEN 3
                  ELSE IF b1 \in 240..244 THEN 4
                  ELSE 0
         IN
         IF n = 0 \/ Len(b) < n \/ \E k \in 2..n : ~IsCont(b[k])
         THEN [ok |-> FALSE, val |-> <<>>]
         ELSE IF \/ (b1 = 224 /\ b[2] < 160)
                 \/ (b1 = 237 /\ b[2] > 159)
                 \/ (b1 = 240 /\ b[2] < 144)
                 \/ (b1 = 244 /\ b[2] > 143)
              THEN [ok |-> FALSE, val |-> <<>>]
              ELSE LET c == CASE n = 1 -> b1
                              [] n = 2 -> (b1 - 192) * 64 + (b[2] - 128)
                              [] n = 3 -> (b1 - 224) * 4096 + (b[2] - 128) * 64
                                          + (b[3] - 128)
                              [] n = 4 -> (b1 - 240) * 262144 + (b[2] - 128) * 4096
                                          + (b[3] - 128) * 64 + (b[4] - 128)
                       rest == FromUtf8(SubSeq(b, n + 1, Len(b)))
                   IN
                   IF rest.ok THEN [ok |-> TRUE, val |-> <<c>> \o rest.val]
                   ELSE rest

----------------------------------------------------------------------------
(* DbusWriter: what each method returns and appends to the sink *)

Written(bytes) == [ret |-> "Ok", bytes |-> bytes]

write_u8(n) == Written(<<n>>)

\* the InvalidInput error of write_invalid, nothing written
write_invalid == [ret |-> "Err", bytes |-> <<>>]

write_boolean(o, b) == Written(ToBytes(o, Num(IF b THEN 1 ELSE 0, 4)))

write_i16(o, i) == Written(ToBytes(o, i))

write_u16(o, u) == Written(ToBytes(o, u))

write_i32(o, i) == Written(ToBytes(o, i))

write_u32(o, u) == Written(ToBytes(o, u))

\* the value is handed to write_i32, which holds its low 32 bits
write_i64(o, i) == Written(ToBytes(o, SubSeq(i, 5, 8)))

write_u64(o, u) == Written(ToBytes(o, u))

write_string(o, s) ==
    Written(ToBytes(o, Num(StrLen(s), 4)) \o Utf8Bytes(s) \o <<10>>)

write_object_path(o, object_path) == write_string(o, object_path)

write_signature(o, signature) == write_string(o, signature)

----------------------------------------------------------------------------
(* DbusReader: what each method returns and how far it advances *)

\* the source ended inside the value; how much was consumed is left open by
\* io::Read::read_exact
Eof == [ret |-> "Err", kind |-> "UnexpectedEof", val |-> <<>>, pos |-> 0, eof |-> TRUE]

Got(val, pos) == [ret |-> "Ok", kind |-> "None", val |-> val, pos |-> pos, eof |-> FALSE]

InvalidData(pos) ==
    [ret |-> "Err", kind |-> "InvalidData", val |-> <<>>, pos |-> pos, eof |-> FALSE]

\* ReadBytesExt::read_uN / read_iN for an integer of w bytes
ReadNum(o, src, pos, w) ==
    IF pos + w > Len(src) THEN Eof
    ELSE Got(FromBytes(o, SubSeq(src, pos + 1, pos + w)), pos + w)

\* the InvalidInput error of read_invalid, nothing read
read_invalid(pos) ==
    [ret |-> "Err", kind |-> "InvalidInput", val |-> <<>>, pos |-> pos, eof |-> FALSE]

read_u8(src, pos) ==
    IF pos + 1 > Len(src) THEN Eof ELSE Got(src[pos + 1], pos + 1)

\* every value other than 0 is taken as true
read_boolean_Coerce(o, src, pos) ==
    LET val == ReadNum(o, src, pos, 4) IN
    IF val.ret = "Err" THEN val
    ELSE IF val.val = Num(0, 4) THEN Got(FALSE, val.pos)
    ELSE Got(TRUE, val.pos)

read_boolean(o, src, pos) ==
    LET val == ReadNum(o, src, pos, 4) IN
    IF val.ret = "Err" THEN val
    ELSE IF val.val = Num(0, 4) THEN Got(FALSE, val.pos)
    ELSE IF val.val = Num(1, 4) THEN Got(TRUE, val.pos)
    ELSE InvalidData(val.pos)

read_i16(o, src, pos) == ReadNum(o, src, pos, 2)

read_u16(o, src, pos) == ReadNum(o, src, pos, 2)

read_i32(o, src, pos) == ReadNum(o, src, pos, 4)

read_u32(o, src, pos) == ReadNum(o, src, pos, 4)

read_i64(o, src, pos) == ReadNum(o, src, pos, 8)

read_u64(o, src, pos) == ReadNum(o, src, pos, 8)

\* Vec::with_capacity(len) is an empty vector, so read_exact fills a buffer
\* of no bytes and the byte after the length is taken as the terminator
read_string(o, src, pos) ==
    LET len == ReadNum(o, src, pos, 4) IN
    IF len.ret = "Err" THEN len
    ELSE LET buffer == <<>>
             after == len.pos + Len(buffer)
             str_temination == read_u8(src, after)
         IN
         IF str_temination.ret = "Err" THEN str_temination
         ELSE IF str_temination.val # 10 THEN InvalidData(str_temination.pos)
         ELSE LET s == FromUtf8(buffer) IN
              IF s.ok THEN Got(s.val, str_temination.pos)
              ELSE InvalidData(str_temination.pos)

read_object_path(o, src, pos) == read_string(o, src, pos)

read_signature(o, src, pos) == read_string(o, src, pos)

----------------------------------------------------------------------------
(* The writer and the reader as a state machine: values are written to a    *)
(* sink, then a reader is put on the written bytes or on a peer's bytes.    *)

InitWire ==
    /\ order \in ByteOrders
    /\ sink = <<>>
    /\ wlog = <<>>
    /\ phase = "writing"
    /\ source = <<>>
    /\ rpos = 0
    /\ rlog = <<>>
    /\ NamesIdle
    /\ MsgIdle
    /\ TypesIdle

\* one call of a writer method: its bytes reach the sink and the call is
\* recorded with the sink offsets before and after it
DoWrite(op, val, w) ==
    /\ phase = "writing"
    /\ Len(wlog) < MaxWrites
    /\ Len(sink) <= MaxSinkLen
    /\ sink' = sink \o w.bytes
    /\ wlog' = Append(wlog, [op |-> op, val |-> val, at |-> Len(sink),
                             end |-> Len(sink) + Len(w.bytes), ret |-> w.ret])
    /\ UNCHANGED <<order, phase, source, rpos, rlog, namesVars, msgVars, typeVars>>

WriteInvalid == DoWrite("write_invalid", <<>>, write_invalid)

WriteU8 == \E n \in U8Vals : DoWrite("write_u8", n, write_u8(n))

WriteBoolean == \E b \in BOOLEAN : DoWrite("write_boolean", b, write_boolean(order, b))

WriteI16 == \E i \in I16Vals : DoWrite("write_i16", i, write_i16(order, i))

WriteU16 == \E u \in U16Vals : DoWrite("write_u16", u, write_u16(order, u))

WriteI32 == \E i \in I32Vals : DoWrite("write_i32", i, write_i32(order, i))

WriteU32 == \E u \in U32Vals : DoWrite("write_u32", u, write_u32(order, u))

WriteI64 == \E i \in I64Vals : DoWrite("write_i64", i, write_i64(order, i))

WriteU64 == \E u \in U64Vals : DoWrite("write_u64", u, write_u64(order, u))

WriteString == \E s \in StrVals : DoWrite("write_string", s, write_string(order, s))

WriteObjectPath ==
    \E s \in PathVals : DoWrite("write_object_path", s, write_object_path(order, s))

WriteSignature ==
    \E s \in SigVals : DoWrite("write_signature", s, write_signature(order, s))

\* a reader is created on the bytes the writer produced
Loopback ==
    /\ phase = "writing"
    /\ Len(wlog) \in 1..MaxLoopWrites
    /\ phase' = "reading"
    /\ source' = sink
    /\ UNCHANGED <<order, sink, wlog, rpos, rlog, namesVars, msgVars, typeVars>>

\* a reader is created on bytes sent by a peer
Receive ==
    /\ phase = "writing"
    /\ wlog = <<>>
    /\ phase' = "reading"
    /\ source' \in Streams
    /\ UNCHANGED <<order, sink, wlog, rpos, rlog, namesVars, msgVars, typeVars>>

\* one call of a reader method
DoRead(op, r) ==
    /\ phase = "reading"
    /\ Len(rlog) < MaxReads
    /\ rpos' \in (IF r.eof THEN rpos..Len(source) ELSE {r.pos})
    /\ rlog' = Append(rlog, [op |-> op, ret |-> r.ret, kind |-> r.kind,
                             val |-> r.val, from |-> rpos, to |-> rpos'])
    /\ UNCHANGED <<order, sink, wlog, phase, source, namesVars, msgVars, typeVars>>

ReadInvalid == DoRead("read_invalid", read_invalid(rpos))

ReadU8 == DoRead("read_u8", read_u8(source, rpos))

ReadBoolean == DoRead("read_boolean", read_boolean(order, source, rpos))

ReadI16 == DoRead("read_i16", read_i16(order, source, rpos))

ReadU16 == DoRead("read_u16", read_u16(order, source, rpos))

ReadI32 == DoRead("read_i32", read_i32(order, source, rpos))

ReadU32 == DoRead("read_u32", read_u32(order, source, rpos))

ReadI64 == DoRead("read_i64", read_i64(order, source, rpos))

ReadU64 == DoRead("read_u64", read_u64(order, source, rpos))

ReadString == DoRead("read_string", read_string(order, source, rpos))

ReadObjectPath == DoRead("read_object_path", read_object_path(order, source, rpos))

ReadSignature == DoRead("read_signature", read_signature(order, source, rpos))

NextWire ==
    \/ WriteInvalid
    \/ WriteU8
    \/ WriteBoolean
    \/ WriteI16
    \/ WriteU16
    \/ WriteI32
    \/ WriteU32
    \/ WriteI64
    \/ WriteU64
    \/ WriteString
    \/ WriteObjectPath
    \/ WriteSignature
    \/ Loopback
    \/ Receive
    \/ ReadInvalid
    \/ ReadU8
    \/ ReadBoolean
    \/ ReadI16
    \/ ReadU16
    \/ ReadI32
    \/ ReadU32
    \/ ReadI64
    \/ ReadU64
    \/ ReadString
    \/ ReadObjectPath
    \/ ReadSignature

SpecWire == InitWire /\ [][NextWire]_vars

----------------------------------------------------------------------------
(* Vocabulary of the wire properties *)

\* the bytes the k-th write put into the sink
Emitted(k) == SubSeq(sink, wlog[k].at + 1, wlog[k].end)

\* the reader stands on exactly what the writer produced
LoopedBack == phase = "reading" /\ wlog # <<>> /\ source = sink

\* the bytes b hold the unsigned value n < 256 in the byte order of the run
HoldsSmall(b, n) ==
    LET low == IF order = "LittleEndian" THEN 1 ELSE Len(b) IN
    /\ b[low] = n
    /\ \A k \in 1..Len(b) : k # low => b[k] = 0

\* the natural alignment of the value a writer method emits
Alignment(op) ==
    CASE op \in {"write_i16", "write_u16"} -> 2
      [] op \in {"write_i32", "write_u32", "write_boolean", "write_string",
                 "write_object_path"} -> 4
      [] op \in {"write_i64", "write_u64"} -> 8
      [] OTHER -> 1

----------------------------------------------------------------------------
(* C11 *)

\* C11: for every string without NUL and both byte orders, write_string then
\* read_string returns the string unchanged, and the read consumes exactly
\* the bytes the write produced: 4 length bytes, the string bytes and the
\* terminator.
C11_StringRoundTrip ==
    (/\ LoopedBack
     /\ wlog[1].op = "write_string"
     /\ rlog # <<>>
     /\ rlog[1].op = "read_string")
        => /\ rlog[1].ret = "Ok"
           /\ rlog[1].val = wlog[1].val
           /\ rlog[1].to - rlog[1].from = wlog[1].end - wlog[1].at
           /\ wlog[1].end - wlog[1].at = 4 + Len(Utf8Bytes(wlog[1].val)) + 1

----------------------------------------------------------------------------
(* C12 *)

\* C12: write_string emits a u32 length equal to the string's byte count
\* without the terminator, then the string's bytes, then one NUL byte;
\* read_string accepts only a NUL byte as the terminator.
C12_StringLayoutNulTerminated ==
    /\ \A k \in 1..Len(wlog) :
          wlog[k].op = "write_string" =>
             LET b == Emitted(k) IN
             /\ Len(b) >= 5
             /\ HoldsSmall(SubSeq(b, 1, 4), Len(b) - 5)
             /\ SubSeq(b, 5, Len(b) - 1) = Utf8Bytes(wlog[k].val)
             /\ b[Len(b)] = 0
    /\ \A k \in 1..Len(rlog) :
          (rlog[k].op = "read_string" /\ rlog[k].ret = "Ok")
             => source[rlog[k].to] = 0

----------------------------------------------------------------------------
(* C13 *)

\* C13: a signature has a single-byte length prefix: write_signature of more
\* than 255 bytes returns an error and writes nothing, and for at most 255
\* bytes the prefix is one byte, not a u32.
C13_SignatureSingleByteLength ==
    \A k \in 1..Len(wlog) :
       wlog[k].op = "write_signature" =>
          IF Len(wlog[k].val) > 255
          THEN wlog[k].ret = "Err" /\ wlog[k].end = wlog[k].at
          ELSE /\ wlog[k].ret = "Ok"
               /\ wlog[k].end - wlog[k].at = 1 + Len(wlog[k].val) + 1
               /\ sink[wlog[k].at + 1] = Len(wlog[k].val)

----------------------------------------------------------------------------
(* C14 *)

\* C14: after any sequence of primitive writes every value of natural
\* alignment n > 1 starts at a sink offset that is a multiple of n, the gap
\* before it filled with zero bytes; write_u8 then write_u32 gives 1 byte,
\* 3 zero bytes and the 4 value bytes.
C14_ValuesAligned ==
    /\ \A k \in 1..Len(wlog) :
          LET n == Alignment(wlog[k].op)
              pad == (n - (wlog[k].at % n)) % n
          IN
          wlog[k].ret = "Ok" =>
          /\ wlog[k].end - wlog[k].at > pad
          /\ \A j \in 1..pad : sink[wlog[k].at + j] = 0
    /\ (Len(wlog) = 2 /\ wlog[1].op = "write_u8" /\ wlog[2].op = "write_u32")
          => /\ Len(sink) = 8
             /\ SubSeq(sink, 2, 4) = <<0, 0, 0>>

----------------------------------------------------------------------------
(* C15 *)

\* C15: read_boolean returns false for the u32 0, true for 1 and an error
\* for every other u32, in either byte order; write_boolean emits only the
\* u32 values 0 and 1, and write_boolean then read_boolean returns the
\* original bool.
C15_BooleanStrict ==
    /\ \A k \in 1..Len(rlog) :
          rlog[k].op = "read_boolean" =>
             IF rlog[k].from + 4 > Len(source)
             THEN rlog[k].ret = "Err"
             ELSE LET b == SubSeq(source, rlog[k].from + 1, rlog[k].from + 4) IN
                  /\ HoldsSmall(b, 0) => (rlog[k].ret = "Ok" /\ rlog[k].val = FALSE)
                  /\ HoldsSmall(b, 1) => (rlog[k].ret = "Ok" /\ rlog[k].val = TRUE)
                  /\ (~HoldsSmall(b, 0) /\ ~HoldsSmall(b, 1)) => rlog[k].ret = "Err"
                  /\ rlog[k].to = rlog[k].from + 4
    /\ \A k \in 1..Len(wlog) :
          wlog[k].op = "write_boolean" =>
             /\ Len(Emitted(k)) = 4
             /\ HoldsSmall(Emitted(k), IF wlog[k].val THEN 1 ELSE 0)
    /\ (/\ LoopedBack
        /\ wlog[1].op = "write_boolean"
        /\ rlog # <<>>
        /\ rlog[1].op = "read_boolean")
          => (rlog[1].ret = "Ok" /\ rlog[1].val = wlog[1].val)

\* a peer's u32 that is neither 0 nor 1 (its two low bytes are set) is
\* refused by read_boolean
C15_Witness ==
    /\ phase = "reading"
    /\ rlog # <<>>
    /\ rlog[1].op = "read_boolean"
    /\ rlog[1].ret = "Err"
    /\ rlog[1].kind = "InvalidData"
    /\ Len(source) >= 4
    /\ \A k \in 1..4 : source[k] = 1

----------------------------------------------------------------------------
(* C22 *)

\* C22: write_i64 emits exactly 8 bytes, the whole 64-bit value in the byte
\* order of the writer, and write_i64 then read_i64 in the same byte order
\* returns the original value, also for values outside the 32-bit range.
C22_I64FullWidthRoundTrip ==
    /\ \A k \in 1..Len(wlog) :
          wlog[k].op = "write_i64" =>
             /\ wlog[k].ret = "Ok"
             /\ Len(Emitted(k)) = 8
             /\ Emitted(k) = ToBytes(order, wlog[k].val)
    /\ (/\ LoopedBack
        /\ wlog[1].op = "write_i64"
        /\ rlog # <<>>
        /\ rlog[1].op = "read_i64")
          => /\ rlog[1].ret = "Ok"
             /\ rlog[1].val = wlog[1].val
             /\ rlog[1].to = rlog[1].from + 8

----------------------------------------------------------------------------
(* message.rs: the message header and its serialisation *)

\* header_fields holds at most this many entries
MaxFields == 2

RECURSIVE BitXor(_, _)
\* a ^ b on unsigned integers
BitXor(a, b) ==
    IF a = 0 /\ b = 0
    THEN 0
    ELSE ((a + b) % 2) + 2 * BitXor(a \div 2, b \div 2)

\* const MAX_MESSAGE_SIZE: u32 = 2^27; where ^ is Rust's bitwise xor
MAX_MESSAGE_SIZE == BitXor(2, 27)

EndianessFlags == {"LittleEndian", "BigEndian"}

\* EndianessFlag as u8: the enum has no explicit discriminants
EndianessFlag_as_u8(f) == IF f = "LittleEndian" THEN 0 ELSE 1

MessageTypes == {"Invalid", "MethodCall", "MethodReturn", "Error", "Signal"}

\* MessageType as u8
MessageType_as_u8(t) ==
    CASE t = "Invalid" -> 0
      [] t = "MethodCall" -> 1
      [] t = "MethodReturn" -> 2
      [] t = "Error" -> 3
      [] t = "Signal" -> 4

\* HeaderFieldCode as u8
HeaderFieldCode_as_u8(c) ==
    CASE c = "Invalid" -> 0
      [] c = "Path" -> 1
      [] c = "Interface" -> 2
      [] c = "Member" -> 3
      [] c = "ErrorName" -> 4
      [] c = "ReplySerial" -> 5
      [] c = "Destination" -> 6
      [] c = "Sender" -> 7
      [] c = "Signature" -> 8
      [] c = "UnixFds" -> 9

RECURSIVE BitOr(_, _)
\* a | b on unsigned integers
BitOr(a, b) ==
    IF a = 0 /\ b = 0
    THEN 0
    ELSE (IF a % 2 = 1 \/ b % 2 = 1 THEN 1 ELSE 0) + 2 * BitOr(a \div 2, b \div 2)

\* HeaderFlags::NO_REPLY_EXPECTED
NO_REPLY_EXPECTED == 1

\* HeaderFlags::NO_AUTO_START
NO_AUTO_START == 1

\* HeaderFlags::ALLOW_INTERACTIVE_AUTHORIZATION
ALLOW_INTERACTIVE_AUTHORIZATION == 4

\* the flags HeaderFlags declares
HeaderFlagNames == {"NO_REPLY_EXPECTED", "NO_AUTO_START", "ALLOW_INTERACTIVE_AUTHORIZATION"}

\* the bits of one declared flag
FlagConst(f) ==
    CASE f = "NO_REPLY_EXPECTED" -> NO_REPLY_EXPECTED
      [] f = "NO_AUTO_START" -> NO_AUTO_START
      [] f = "ALLOW_INTERACTIVE_AUTHORIZATION" -> ALLOW_INTERACTIVE_AUTHORIZATION

RECURSIVE HeaderFlags_bits(_)
\* bits() of the flags of S joined with |, HeaderFlags::empty() for none
HeaderFlags_bits(S) ==
    IF S = {}
    THEN 0
    ELSE LET f == CHOOSE x \in S : TRUE IN
         BitOr(FlagConst(f), HeaderFlags_bits(S \ {f}))

\* HeaderFlags::bits() of every flag set a header can be built with
FlagBits == {HeaderFlags_bits(S) : S \in SUBSET HeaderFlagNames}

\* MajorProtocolVersion(u8)
Versions == {1}

\* length_message_body: an empty body, a small one and one of 2 to the
\* 27th power bytes
BodyLens == {0, 8, 2^27}

\* Serial(u32), as four digits
Serials == {<<0, 0, 1, 2>>}

\* the (HeaderFieldCode, HeaderField) entries a header is built from
FieldEntries ==
    { [code |-> "Invalid", field |-> [tag |-> "Invalid", val |-> <<>>]],
      [code |-> "UnixFds", field |-> [tag |-> "UnixFds", val |-> <<0, 0, 0, 7>>]],
      [code |-> "Path", field |-> [tag |-> "Path", val |-> <<47>>]],
      [code |-> "ReplySerial", field |-> [tag |-> "ReplySerial", val |-> <<0, 0, 0, 1>>]] }

\* struct Header: every value of the struct can be built, its fields are
\* filled in by a struct literal
Headers ==
    [ endianess_flag : EndianessFlags,
      message_type : MessageTypes,
      flags : FlagBits,
      major_protocol_version : Versions,
      length_message_body : BodyLens,
      serial : Serials,
      header_fields : UNION {[1..n -> FieldEntries] : n \in 0..MaxFields} ]

\* a call that panicked after writing bytes
Panicked(bytes) == [ret |-> "Panic", bytes |-> bytes]

\* HeaderField::write
HeaderField_write(T2, field) ==
    CASE field.tag = "Invalid" -> [ret |-> "Err", bytes |-> <<>>]
      [] field.tag = "UnixFds" -> write_u32(T2, field.val)
      [] OTHER -> Panicked(<<>>)

RECURSIVE HeaderFieldsLoop(_, _, _, _)
\* the loop of Header::write over header_fields, from entry k on, bytes
\* being what the writer holds so far: the code byte is written, then the
\* field, whose Result is dropped
HeaderFieldsLoop(T2, fields, k, bytes) ==
    IF k > Len(fields)
    THEN Written(bytes)
    ELSE LET code == write_u8(HeaderFieldCode_as_u8(fields[k].code))
             f == HeaderField_write(T2, fields[k].field)
         IN
         IF f.ret = "Panic"
         THEN Panicked(bytes \o code.bytes)
         ELSE HeaderFieldsLoop(T2, fields, k + 1, bytes \o code.bytes \o f.bytes)

\* Header::write::<T1, T2>
Header_write(T2, h) ==
    HeaderFieldsLoop(T2, h.header_fields, 1,
        write_u8(EndianessFlag_as_u8(h.endianess_flag)).bytes
        \o write_u8(MessageType_as_u8(h.message_type)).bytes
        \o write_u8(h.flags).bytes
        \o write_u8(h.major_protocol_version).bytes
        \o write_u32(T2, Num(h.length_message_body, 4)).bytes
        \o write_u32(T2, h.serial).bytes)

\* Body::write is unimplemented!()
Body_write(bytes) == Panicked(bytes)

\* Message::write: the byte order follows the endianness flag, the header
\* is written and then the body
Message_write(h) ==
    LET hw == Header_write(h.endianess_flag, h) IN
    IF hw.ret = "Ok" THEN Body_write(hw.bytes) ELSE hw

\* a header has been built and nothing is written yet
InitMessage ==
    /\ header \in Headers
    /\ outcome = NoOutcome
    /\ order = "None"
    /\ sink = <<>>
    /\ wlog = <<>>
    /\ phase = "None"
    /\ source = <<>>
    /\ rpos = 0
    /\ rlog = <<>>
    /\ NamesIdle
    /\ TypesIdle

\* header.write::<T, T2>(&mut writer) on a fresh writer
HeaderWrite ==
    /\ outcome = NoOutcome
    /\ \E T2 \in ByteOrders :
          LET w == Header_write(T2, header) IN
          /\ order' = T2
          /\ sink' = sink \o w.bytes
          /\ outcome' = [op |-> "Header::write", ret |-> w.ret]
    /\ UNCHANGED <<header, wlog, phase, source, rpos, rlog, namesVars, typeVars>>

\* message.write(writer) on a fresh writer
MessageWrite ==
    /\ outcome = NoOutcome
    /\ LET w == Message_write(header) IN
       /\ order' = header.endianess_flag
       /\ sink' = sink \o w.bytes
       /\ outcome' = [op |-> "Message::write", ret |-> w.ret]
    /\ UNCHANGED <<header, wlog, phase, source, rpos, rlog, namesVars, typeVars>>

NextMessage ==
    \/ HeaderWrite
    \/ MessageWrite

SpecMessage == InitMessage /\ [][NextMessage]_vars

----------------------------------------------------------------------------
(* Vocabulary of the message properties *)

\* a write of the header or of the message has run
WriteCalled == outcome.op # "None"

\* the tags of the fields the header carries
FieldTags == {header.header_fields[k].field.tag : k \in 1..Len(header.header_fields)}

\* the fields a message type makes mandatory
Mandatory(t) ==
    CASE t = "MethodCall" -> {"Path", "Member"}
      [] t = "Signal" -> {"Path", "Interface", "Member"}
      [] t = "Error" -> {"ErrorName", "ReplySerial"}
      [] t = "MethodReturn" -> {"ReplySerial"}
      [] OTHER -> {}

LacksMandatoryField == ~(Mandatory(header.message_type) \subseteq FieldTags)

\* the write refused the message and left the sink as it was
RejectedUnwritten == outcome.ret = "Err" /\ sink = <<>>

\* the smallest multiple of 8 that is at least n
PaddedTo8(n) == ((n + 7) \div 8) * 8

----------------------------------------------------------------------------
(* C16 *)

\* C16: when Header::write succeeds the sink holds 'l' (0x6C) or 'B' (0x42)
\* for the endianness flag, then the message type, the flags, the major
\* version, the u32 body length and the u32 serial in the byte order of the
\* call, then the header fields, then zero bytes up to a multiple of 8; a
\* header without fields is 16 bytes long.
C16_HeaderLayout ==
    (outcome.op = "Header::write" /\ outcome.ret = "Ok") =>
        /\ Len(sink) >= 12
        /\ sink[1] = (IF header.endianess_flag = "LittleEndian" THEN 108 ELSE 66)
        /\ sink[2] = MessageType_as_u8(header.message_type)
        /\ sink[3] = header.flags
        /\ sink[4] = header.major_protocol_version
        /\ SubSeq(sink, 5, 8) = ToBytes(order, Num(header.length_message_body, 4))
        /\ SubSeq(sink, 9, 12) = ToBytes(order, header.serial)
        /\ Len(sink) % 8 = 0
        /\ header.header_fields = <<>> =>
              (Len(sink) = 16 /\ SubSeq(sink, 13, 16) = <<0, 0, 0, 0>>)

----------------------------------------------------------------------------
(* C17 *)

\* C17: once Header::write or Message::write has run on a header whose
\* header_fields hold a HeaderField::Invalid entry, the call has returned an
\* error and the sink holds no byte.
C17_InvalidFieldRejectedUnwritten ==
    (WriteCalled /\ "Invalid" \in FieldTags) => RejectedUnwritten

----------------------------------------------------------------------------
(* C18 *)

\* C18: once Header::write or Message::write has run on a header that lacks
\* a field its message type makes mandatory (MethodCall: Path, Member;
\* Signal: Path, Interface, Member; Error: ErrorName, ReplySerial;
\* MethodReturn: ReplySerial), the call has returned an error and the sink
\* holds no byte.
C18_MandatoryFieldsEnforced ==
    (WriteCalled /\ LacksMandatoryField) => RejectedUnwritten

----------------------------------------------------------------------------
(* C19 *)

\* C19: MAX_MESSAGE_SIZE is 2 to the 27th power = 134217728, and once
\* Header::write or Message::write has run on a message whose header (12
\* bytes and its fields, padded to a multiple of 8) and body together exceed
\* 134217728 bytes, the call has returned an error and the sink holds no
\* byte.
C19_MaxMessageSizeEnforced ==
    /\ MAX_MESSAGE_SIZE = 134217728
    /\ (/\ WriteCalled
        /\ PaddedTo8(12 + Len(header.header_fields))
              + header.length_message_body > 134217728)
          => RejectedUnwritten

----------------------------------------------------------------------------
(* C23 *)

\* the sets of declared flags whose bits() is the byte b
FlagSetsOf(b) == {S \in SUBSET HeaderFlagNames : HeaderFlags_bits(S) = b}

\* C23: once the header is written its flags byte is the bits() of exactly
\* one set of flags (NO_REPLY_EXPECTED = 0x1, NO_AUTO_START = 0x2,
\* ALLOW_INTERACTIVE_AUTHORIZATION = 0x4 share no bit), and the byte of
\* NO_AUTO_START alone is not the byte of a set holding NO_REPLY_EXPECTED.
C23_FlagsOnDistinctBits ==
    WriteCalled =>
        /\ sink[3] = header.flags
        /\ \A S1, S2 \in FlagSetsOf(sink[3]) : S1 = S2
        /\ sink[3] = HeaderFlags_bits({"NO_AUTO_START"}) =>
              \A S \in FlagSetsOf(sink[3]) : "NO_REPLY_EXPECTED" \notin S

----------------------------------------------------------------------------
(* type_system.rs: type codes *)

\* a Vec or a HashMap holds at most this many entries
MaxVec == 2

\* the types with a constant type code
BasicTypes == {"u8", "bool", "i16", "u16", "i32", "u32", "i64", "u64", "f64",
               "String", "str", "ObjectPath", "Signature", "UnixFd", "Variant"}

\* the type code of each of them, as characters
BasicCode(ty) ==
    CASE ty = "u8" -> <<121>>
      [] ty = "bool" -> <<98>>
      [] ty = "i16" -> <<110>>
      [] ty = "u16" -> <<113>>
      [] ty = "i32" -> <<105>>
      [] ty = "u32" -> <<117>>
      [] ty = "i64" -> <<120>>
      [] ty = "u64" -> <<116>>
      [] ty = "f64" -> <<100>>
      [] ty = "String" -> <<115>>
      [] ty = "str" -> <<115>>
      [] ty = "ObjectPath" -> <<111>>
      [] ty = "Signature" -> <<103>>
      [] ty = "UnixFd" -> <<104>>
      [] ty = "Variant" -> <<118>>

\* a value of a basic type; what it holds has no part in its type code
Basic(ty) == [ty |-> ty]

\* the sequences of at most MaxVec members of S
UpToMaxVec(S) == UNION {[1..n -> S] : n \in 0..MaxVec}

\* Vec<T> for a basic T
BasicVecs ==
    {[ty |-> "Vec", elem |-> Basic(t), items |-> [k \in 1..n |-> Basic(t)]] :
        t \in BasicTypes, n \in 0..MaxVec}

\* Vec<Vec<u8>>
NestedVecs ==
    {[ty |-> "Vec", elem |-> [ty |-> "Vec", elem |-> Basic("u8")], items |-> i] :
        i \in UpToMaxVec({v \in BasicVecs : v.elem = Basic("u8")})}

\* HashMap<u8, String>, as the entries in iteration order
HashMaps ==
    {[ty |-> "HashMap", key |-> Basic("u8"), val |-> Basic("String"),
      items |-> [k \in 1..n |-> [key |-> Basic("u8"), value |-> Basic("String")]]] :
        n \in 0..MaxVec}

\* the values to_type_code is called on
Values == {Basic(t) : t \in BasicTypes} \cup BasicVecs \cup NestedVecs \cup HashMaps

RECURSIVE to_type_code(_)
RECURSIVE VecLoop(_, _, _)
\* the loop of Vec<T>::to_type_code from item k on
VecLoop(items, k, type_code_) ==
    IF k > Len(items)
    THEN type_code_
    ELSE VecLoop(items, k + 1, type_code_ \o to_type_code(items[k]))

\* ToTypeCode::to_type_code
to_type_code(x) ==
    CASE x.ty = "Vec" -> VecLoop(x.items, 1, <<97>>)
      [] x.ty = "HashMap" ->
            <<123>>
            \o (IF x.items # <<>>
                THEN to_type_code(x.items[1].key) \o to_type_code(x.items[1].value)
                ELSE <<>>)
            \o <<125>>
      [] OTHER -> BasicCode(x.ty)

\* a value exists and its type code has not been asked for
InitTypes ==
    /\ value \in Values
    /\ type_code = <<>>
    /\ NamesIdle
    /\ WireIdle
    /\ MsgIdle

\* value.to_type_code()
ToTypeCode ==
    /\ type_code = <<>>
    /\ type_code' = to_type_code(value)
    /\ UNCHANGED <<value, namesVars, wireVars, msgVars>>

NextTypes == ToTypeCode

SpecTypes == InitTypes /\ [][NextTypes]_vars

----------------------------------------------------------------------------
(* C20 *)

RECURSIVE DeclaredCode(_)
\* the type code of a type, from its declaration alone
DeclaredCode(t) ==
    CASE t.ty = "Vec" -> <<97>> \o DeclaredCode(t.elem)
      [] OTHER -> BasicCode(t.ty)

\* C20: the type code of a Vec<T> is 'a' followed by one copy of the code of
\* T, whatever the number of items: empty, one item or several ("ay" for
\* u8).
C20_ArrayCodeIndependentOfLength ==
    (value.ty = "Vec" /\ type_code # <<>>) =>
        type_code = <<97>> \o DeclaredCode(value.elem)

====
